---- MODULE Spec2Model ----
(***************************************************************************)
(* A model of the golimiter admission engine (src/golimiter.go): the load  *)
(* state machine (AddState, updateState), the visitor registry             *)
(* (getVisitor, addVisitor, cleanupVisitors), the allow/deny lists         *)
(* (updateWhitelist, updateBlacklist) and the request path                 *)
(* (LimitHTTPHandler, LimitNetConn).                                       *)
(*                                                                         *)
(* Conventions.                                                            *)
(*  - A *rate.Limiter (golang.org/x/time/rate) is a record                 *)
(*    [alloc, tokens, burst, rate]; alloc = FALSE is the nil pointer.      *)
(*    Allow() takes one token when one is there. Time is a counter `now`;  *)
(*    one Tick adds `rate` tokens to every bucket, up to its burst, and    *)
(*    is the unit of the idle threshold and of the sleep periods.          *)
(*  - A client identifier (r.RemoteAddr) is a tuple of characters, so      *)
(*    that ReadList can split a file's characters into lines.              *)
(*  - Slices are functions on 0 .. n-1, as Go indexes them.                *)
(*  - mu is the Limiter's embedded sync.Mutex: Free when free, otherwise the  *)
(*    goroutine that holds it. A critical section that runs from Lock to   *)
(*    Unlock without blocking or panicking is one step; mu stays taken     *)
(*    only where the code leaves it locked.                                *)
(*  - The fields of Limiter that carry tiers and visitors are unexported   *)
(*    and no exported function allocates them: the zero-value Limiter has  *)
(*    nil triggers/params and a nil visitors map, and code of the package  *)
(*    may construct it with allocated slices and an existing map (Init,    *)
(*    line 139, keeps a map that exists). The initial states cover both.   *)
(***************************************************************************)
EXTENDS Integers, Sequences, FiniteSets, TLC

VARIABLES
    phase,        \* "config" (before Init), "serving", "failed" (Init returned an error),
                  \* "blocked" (Init never returns), "crashed" (AddState panicked)
    mu,           \* sync.Mutex: Free, else the goroutine holding it
    Rate, Burst,  \* Limiter.Rate, Limiter.Burst
    params,       \* Limiter.params
    triggers,     \* Limiter.triggers
    Whitelist,    \* Limiter.Whitelist: [On, Filename, UpdateFreq, list, run]
    Blacklist,    \* Limiter.Blacklist: [On, Filename, UpdateFreq, list, run]
    Cleanup,      \* Limiter.Cleanup: [Off, Thres, Freq, run, wake]
    visitors,     \* keys of Limiter.visitors; the key ip points to heap[ip]
    heap,         \* the visitor objects, by the identifier they were made for
    useDefault,   \* Limiter.useDefault
    state,        \* Limiter.state
    now,          \* time.Now()
    req,          \* the request goroutines
    lastFailed,   \* history: the tiers whose trigger failed in the latest updateState
    nReq,         \* history: requests started
    other         \* a second Limiter of the same process: [mu, triggers, useDefault,
                  \* state, visitors, list]

\* The first Limiter and everything that belongs to it.
limiter == <<phase, mu, Rate, Burst, params, triggers, Whitelist, Blacklist, Cleanup,
             visitors, heap, useDefault, state, now, req, lastFailed, nReq>>

vars == <<limiter, other>>

(* ------------------------------ bounds -------------------------------- *)
MaxTiers == 2       \* longest triggers/params slice a Limiter is constructed with
MaxRequests == 3    \* requests served
MaxNow == 1         \* ticks of the clock

(* ------------------------- program constants -------------------------- *)
DefaultRate == 1
DefaultBurst == 5
DefaultUpdateFreq == 3
DefaultFreq == 3
DefaultThres == 3

(* ------------------------------ inputs -------------------------------- *)
NL == "\n"
Ips == {<<"a">>, <<"b">>}
NoIp == <<>>
Reqs == {"r1", "r2"}     \* the request goroutines
InitG == "Init"          \* the goroutine that calls Init
EditG == "edit"          \* the goroutine that calls RemoveFromWhiteList / RemoveFromBlackList
Free == "free"
Limits == {0, 1}         \* the trigger limits given to AddState

\* The content of the list files: characters, newline separated.
WLFile == <<"a", NL>>
BLFile == <<"b", NL>>
\* A file that names an identifier on two lines.
DupFile == <<"a", NL, "b", NL, "a">>
FileOf(name) == IF name = "wl" THEN WLFile ELSE IF name = "dup" THEN DupFile ELSE BLFile

Min(a, b) == IF a < b THEN a ELSE b

(* --------------------------- token buckets ---------------------------- *)
NilLimiter == [alloc |-> FALSE, tokens |-> 0, burst |-> 0, rate |-> 0]
NewLimiter(r, b) == [alloc |-> TRUE, tokens |-> b, burst |-> b, rate |-> r]
AllowOk(b) == b.tokens >= 1
AllowTake(b) == IF b.tokens >= 1 THEN [b EXCEPT !.tokens = @ - 1] ELSE b
Refill(b) == IF b.alloc THEN [b EXCEPT !.tokens = Min(b.burst, @ + b.rate)] ELSE b

(* ------------------------------ common -------------------------------- *)
\* strings.Split(raw, "\n"): the lines of raw, the text after the last newline
\* included (the empty line of a file that ends in a newline).
RECURSIVE SplitFrom(_, _, _)
SplitFrom(raw, i, cur) ==
    IF i > Len(raw) THEN <<cur>>
    ELSE IF raw[i] = NL THEN <<cur>> \o SplitFrom(raw, i + 1, <<>>)
    ELSE SplitFrom(raw, i + 1, Append(cur, raw[i]))

ReadList(name) == SplitFrom(FileOf(name), 1, <<>>)

\* InArray: (exists, index of the first occurrence), 0-based; (FALSE, 0) when absent.
InArrayIdx(array, val) ==
    IF \E i \in 1 .. Len(array) : array[i] = val
    THEN (CHOOSE i \in 1 .. Len(array) :
              array[i] = val /\ \A j \in 1 .. (i - 1) : array[j] # val) - 1
    ELSE 0
InArray(array, val) == \E i \in 1 .. Len(array) : array[i] = val

(* ------------------------------ visitors ------------------------------ *)
NoVisitor == [limiter |-> NilLimiter, limiters |-> <<>>, lastSeen |-> 0]
\* A setup that leaves a zero parameter at zero.
OrDefaultKeepsZero(v, d) == v

\* if x == 0 { x = d }
OrDefault(v, d) == IF v = 0 THEN d ELSE v

\* A visitor of an existing map, shaped as addVisitor shapes one: a full default
\* bucket and one full tier bucket per entry of params. The visitors of the
\* initial map were last seen one time unit before the clock starts.
VRate == 1
VBurst == 1
MakeVisitor(r, b, n, t) ==
    [limiter |-> NewLimiter(OrDefault(r, DefaultRate), OrDefault(b, DefaultBurst)),
     limiters |-> [i \in 0 .. (n - 1) |-> NewLimiter(VRate, VBurst)],
     lastSeen |-> t]

(* --------------------------- configurations --------------------------- *)
\* The value of a chan bool that was declared (var q chan bool) and never made.
NilChan == "nil"

\* A list's settings, the state of its goroutine (run, pc and the locals newList
\* and err of the loop body) and whether a removal is between its copy and its
\* assignment (edit).
ListOff ==
    [On |-> FALSE, Filename |-> "", UpdateFreq |-> 0, quitChan |-> NilChan, list |-> <<>>,
     run |-> FALSE, pc |-> "fetch", newList |-> <<>>, err |-> FALSE, edit |-> FALSE]
ListConfigs(name) ==
    {ListOff,
     [ListOff EXCEPT !.On = TRUE],
     [ListOff EXCEPT !.On = TRUE, !.Filename = name, !.UpdateFreq = 1]}
CleanupConfigs ==
    {[Off |-> TRUE, Thres |-> 0, Freq |-> 0, quitChan |-> NilChan, run |-> FALSE, wake |-> 0],
     [Off |-> FALSE, Thres |-> 1, Freq |-> 1, quitChan |-> NilChan, run |-> FALSE, wake |-> 0]}
BurstConfigs == {1}

\* The second Limiter, set up and initialised: one tier of limit 1, identifier a
\* registered, an empty blacklist.
OtherG == "other"        \* the goroutine of a request on the second Limiter
OtherLimiter ==
    [mu |-> Free, triggers |-> [i \in 0 .. 0 |-> NewLimiter(1, 1)], useDefault |-> TRUE,
     state |-> 0, visitors |-> {<<"a">>}, list |-> <<>>]

NewReq == [pc |-> "idle", ip |-> NoIp, v |-> NoIp, verdict |-> "none",
           served |-> FALSE, refreshes |-> 0]

Init ==
    /\ phase = "config"
    /\ mu = Free
    /\ now = 0
    /\ Rate = 0
    /\ Burst \in BurstConfigs
    /\ \E n \in 0 .. MaxTiers :
          /\ triggers = [i \in 0 .. (n - 1) |-> NilLimiter]
          /\ params = [i \in 0 .. (n - 1) |-> [rate |-> 0, burst |-> 0]]
          /\ \E vs \in {{}, Ips} :
                /\ visitors = vs
                /\ heap = [ip \in Ips |-> IF ip \in vs THEN MakeVisitor(Rate, Burst, n, now - 1)
                                          ELSE NoVisitor]
    /\ Whitelist \in ListConfigs("wl")
    /\ Blacklist \in ListConfigs("bl")
    /\ Cleanup \in CleanupConfigs
    /\ useDefault = FALSE
    /\ state = 0
    /\ req = [p \in Reqs |-> NewReq]
    /\ lastFailed = {}
    /\ nReq = 0
    /\ other = OtherLimiter

(* ------------------------------ AddState ------------------------------ *)
\* l.triggers[order] = ...: an index outside the slice panics (the zero-value
\* Limiter's slices are nil, so there every order does).
\* An AddState that appends a tier when order is one past the last.
AddStateAppends(order, limit, vRate, vBurst) ==
    /\ phase = "config"
    /\ order \in DOMAIN triggers => ~triggers[order].alloc
    /\ LET n == Cardinality(DOMAIN triggers)
           grown(f, x) == [i \in 0 .. n |-> IF i < n THEN f[i] ELSE x]
       IN  IF order \in DOMAIN triggers
           THEN /\ triggers' = [triggers EXCEPT ![order] = NewLimiter(limit, limit)]
                /\ params' = [params EXCEPT ![order] = [rate |-> vRate, burst |-> vBurst]]
                /\ phase' = phase
           ELSE IF order = n
           THEN /\ triggers' = grown(triggers, NewLimiter(limit, limit))
                /\ params' = grown(params, [rate |-> vRate, burst |-> vBurst])
                /\ phase' = phase
           ELSE /\ phase' = "crashed"
                /\ UNCHANGED <<triggers, params>>
    /\ UNCHANGED <<other, mu, Rate, Burst, Whitelist, Blacklist, Cleanup, visitors, heap,
                   useDefault, state, now, req, lastFailed, nReq>>

AddState(order, limit, vRate, vBurst) ==
    /\ phase = "config"
    /\ order \in DOMAIN triggers => ~triggers[order].alloc
    /\ IF order \in DOMAIN triggers
       THEN /\ triggers' = [triggers EXCEPT ![order] = NewLimiter(limit, limit)]
            /\ params' = [params EXCEPT ![order] = [rate |-> vRate, burst |-> vBurst]]
            /\ phase' = phase
       ELSE /\ phase' = "crashed"
            /\ UNCHANGED <<triggers, params>>
    /\ UNCHANGED <<other, mu, Rate, Burst, Whitelist, Blacklist, Cleanup, visitors, heap,
                   useDefault, state, now, req, lastFailed, nReq>>

(* -------------------------------- Init -------------------------------- *)
\* Whether setting up a list fails: no file name, or ReadList returns an error.
ListFails(L, readable) == L.Filename = "" \/ ~readable

\* The list after its goroutine is started (go l.update...(q), q a nil channel).
Started(L) ==
    [L EXCEPT !.UpdateFreq = OrDefault(@, DefaultUpdateFreq), !.run = TRUE,
              !.quitChan = NilChan]

LimiterInit(wlReadable, blReadable) ==
    /\ phase = "config"
    /\ mu = Free
    /\ LET wlFail == Whitelist.On /\ ListFails(Whitelist, wlReadable)
           blFail == Blacklist.On /\ ListFails(Blacklist, blReadable)
           wl1 == IF Whitelist.On /\ ~wlFail THEN Started(Whitelist) ELSE Whitelist
       IN  IF wlFail
           THEN \* lines 79-86: return the error
                /\ phase' = "failed"
                /\ UNCHANGED <<mu, Rate, Burst, Whitelist, Blacklist, Cleanup, visitors,
                               useDefault>>
           ELSE IF blFail /\ wl1.On
           THEN \* lines 97-99, 105-107: l.Whitelist.quitChan is nil, the send
                \* never completes and Init keeps the mutex
                /\ phase' = "blocked"
                /\ mu' = InitG
                /\ Whitelist' = [wl1 EXCEPT !.On = FALSE]
                /\ UNCHANGED <<Rate, Burst, Blacklist, Cleanup, visitors, useDefault>>
           ELSE IF blFail
           THEN /\ phase' = "failed"
                /\ UNCHANGED <<mu, Rate, Burst, Whitelist, Blacklist, Cleanup, visitors,
                               useDefault>>
           ELSE /\ phase' = "serving"
                /\ Whitelist' = wl1
                /\ Blacklist' = IF Blacklist.On THEN Started(Blacklist) ELSE Blacklist
                /\ Cleanup' = IF Cleanup.Off THEN Cleanup
                              ELSE [Cleanup EXCEPT !.Freq = OrDefault(@, DefaultFreq),
                                                   !.Thres = OrDefault(@, DefaultThres),
                                                   !.run = TRUE,
                                                   !.quitChan = NilChan,
                                                   !.wake = now + OrDefault(Cleanup.Freq, DefaultFreq)]
                /\ Rate' = OrDefault(Rate, DefaultRate)
                /\ Burst' = OrDefault(Burst, DefaultBurst)
                /\ useDefault' = TRUE
                /\ UNCHANGED <<mu, visitors>>
    /\ UNCHANGED <<other, params, triggers, heap, state, now, req, lastFailed, nReq>>

\* The rest of Init once its send `l.Whitelist.quitChan <- true` has been taken:
\* return the error (the deferred Unlock runs). A send on a nil channel is never
\* taken, so this step is not among the steps of the Limiter.
LimiterInitReturnsError ==
    /\ phase = "blocked"
    /\ Whitelist.quitChan # NilChan
    /\ ~Whitelist.run
    /\ phase' = "failed"
    /\ mu' = Free
    /\ UNCHANGED <<other, Rate, Burst, params, triggers, Whitelist, Blacklist, Cleanup, visitors,
                   heap, useDefault, state, now, req, lastFailed, nReq>>

\* `case <-quit: return` of updateWhitelist: taken when a value is being sent on
\* quit. A receive from a nil channel is never ready, so this step is not among
\* the steps of the Limiter either.
whitelistQuit ==
    /\ Whitelist.run
    /\ Whitelist.quitChan # NilChan
    /\ phase = "blocked"
    /\ Whitelist' = [Whitelist EXCEPT !.run = FALSE]
    /\ UNCHANGED <<other, phase, mu, Rate, Burst, params, triggers, Blacklist, Cleanup, visitors,
                   heap, useDefault, state, now, req, lastFailed, nReq>>

(* ---------------------------- updateState ----------------------------- *)
\* for i, t := range l.triggers { if t.Allow() == false { l.state = i; l.useDefault = false } }
\* from index i on. Allow() on a nil trigger panics; updateState unlocks without
\* defer, so the panic leaves the mutex locked.
\* A scan in which the first failing tier wins: later failures do not overwrite it.
RECURSIVE ScanTriggersFirstWins(_, _, _, _, _)
ScanTriggersFirstWins(i, trig, st, ud, fl) ==
    IF i \notin DOMAIN trig
    THEN [triggers |-> trig, state |-> st, useDefault |-> ud, failed |-> fl, panicked |-> FALSE]
    ELSE IF ~trig[i].alloc
    THEN [triggers |-> trig, state |-> st, useDefault |-> ud, failed |-> fl, panicked |-> TRUE]
    ELSE IF AllowOk(trig[i])
    THEN ScanTriggersFirstWins(i + 1, [trig EXCEPT ![i] = AllowTake(@)], st, ud, fl)
    ELSE ScanTriggersFirstWins(i + 1, trig, IF ud THEN i ELSE st, FALSE, fl \cup {i})

\* A scan in which taking a trigger's last token already counts as a failure.
RECURSIVE ScanTriggersFailOnLast(_, _, _, _, _)
ScanTriggersFailOnLast(i, trig, st, ud, fl) ==
    IF i \notin DOMAIN trig
    THEN [triggers |-> trig, state |-> st, useDefault |-> ud, failed |-> fl, panicked |-> FALSE]
    ELSE IF ~trig[i].alloc
    THEN [triggers |-> trig, state |-> st, useDefault |-> ud, failed |-> fl, panicked |-> TRUE]
    ELSE IF trig[i].tokens >= 2
    THEN ScanTriggersFailOnLast(i + 1, [trig EXCEPT ![i] = AllowTake(@)], st, ud, fl)
    ELSE ScanTriggersFailOnLast(i + 1, [trig EXCEPT ![i] = AllowTake(@)], i, FALSE,
                                fl \cup {i})

RECURSIVE ScanTriggers(_, _, _, _, _)
ScanTriggers(i, trig, st, ud, fl) ==
    IF i \notin DOMAIN trig
    THEN [triggers |-> trig, state |-> st, useDefault |-> ud, failed |-> fl, panicked |-> FALSE]
    ELSE IF ~trig[i].alloc
    THEN [triggers |-> trig, state |-> st, useDefault |-> ud, failed |-> fl, panicked |-> TRUE]
    ELSE IF AllowOk(trig[i])
    THEN ScanTriggers(i + 1, [trig EXCEPT ![i] = AllowTake(@)], st, ud, fl)
    ELSE ScanTriggers(i + 1, trig, i, FALSE, fl \cup {i})

\* An updateState without the reset `l.useDefault = true` before the scan.
updateStateNoReset(p) ==
    /\ req[p].pc = "updateState"
    /\ mu = Free
    /\ LET r == ScanTriggers(0, triggers, state, useDefault, {})
       IN  /\ triggers' = r.triggers
           /\ state' = r.state
           /\ useDefault' = r.useDefault
           /\ lastFailed' = r.failed
           /\ IF r.panicked
              THEN /\ mu' = p
                   /\ req' = [req EXCEPT ![p].pc = "dead", ![p].verdict = "panic",
                                         ![p].refreshes = @ + 1]
              ELSE /\ mu' = mu
                   /\ req' = [req EXCEPT ![p].pc = "whitelist", ![p].refreshes = @ + 1]
    /\ UNCHANGED <<other, phase, Rate, Burst, params, Whitelist, Blacklist, Cleanup, visitors,
                   heap, now, nReq>>

updateState(p) ==
    /\ req[p].pc = "updateState"
    /\ mu = Free
    /\ LET r == ScanTriggers(0, triggers, state, TRUE, {})
       IN  /\ triggers' = r.triggers
           /\ state' = r.state
           /\ useDefault' = r.useDefault
           /\ lastFailed' = r.failed
           /\ IF r.panicked
              THEN /\ mu' = p
                   /\ req' = [req EXCEPT ![p].pc = "dead", ![p].verdict = "panic",
                                         ![p].refreshes = @ + 1]
              ELSE /\ mu' = mu
                   /\ req' = [req EXCEPT ![p].pc = "whitelist", ![p].refreshes = @ + 1]
    /\ UNCHANGED <<other, phase, Rate, Burst, params, Whitelist, Blacklist, Cleanup, visitors,
                   heap, now, nReq>>

(* ------------------- LimitHTTPHandler / LimitNetConn ------------------ *)
\* A request arrives: the handler (or LimitNetConn) is called with its identifier.
\* The goroutines are interchangeable: r2 takes a request only while r1 is busy.
\* A handler that goes to the list checks without calling updateState.
ArriveSkipsUpdateState(p, ip) ==
    /\ phase = "serving"
    /\ req[p].pc \in {"idle", "done"}
    /\ p = "r2" => req["r1"].pc \notin {"idle", "done"}
    /\ nReq < MaxRequests
    /\ nReq' = nReq + 1
    /\ req' = [req EXCEPT ![p] = [NewReq EXCEPT !.pc = "whitelist", !.ip = ip]]
    /\ UNCHANGED <<other, phase, mu, Rate, Burst, params, triggers, Whitelist, Blacklist, Cleanup,
                   visitors, heap, useDefault, state, now, lastFailed>>

Arrive(p, ip) ==
    /\ phase = "serving"
    /\ req[p].pc \in {"idle", "done"}
    /\ p = "r2" => req["r1"].pc \notin {"idle", "done"}
    /\ nReq < MaxRequests
    /\ nReq' = nReq + 1
    /\ req' = [req EXCEPT ![p] = [NewReq EXCEPT !.pc = "updateState", !.ip = ip]]
    /\ UNCHANGED <<other, phase, mu, Rate, Burst, params, triggers, Whitelist, Blacklist, Cleanup,
                   visitors, heap, useDefault, state, now, lastFailed>>

\* A whitelist check that reads the list without taking the mutex.
checkWhitelistNoLock(p) ==
    /\ req[p].pc = "whitelist"
    /\ req' = IF Whitelist.On /\ ~InArray(Whitelist.list, req[p].ip)
              THEN [req EXCEPT ![p].pc = "done", ![p].verdict = "RejectPolicy"]
              ELSE [req EXCEPT ![p].pc = "blacklist"]
    /\ UNCHANGED <<other, phase, mu, Rate, Burst, params, triggers, Whitelist, Blacklist, Cleanup,
                   visitors, heap, useDefault, state, now, lastFailed, nReq>>

\* A whitelist check with the test inverted: the listed are rejected.
checkWhitelistInverted(p) ==
    /\ req[p].pc = "whitelist"
    /\ Whitelist.On => mu = Free
    /\ req' = IF Whitelist.On /\ InArray(Whitelist.list, req[p].ip)
              THEN [req EXCEPT ![p].pc = "done", ![p].verdict = "RejectPolicy"]
              ELSE [req EXCEPT ![p].pc = "blacklist"]
    /\ UNCHANGED <<other, phase, mu, Rate, Burst, params, triggers, Whitelist, Blacklist, Cleanup,
                   visitors, heap, useDefault, state, now, lastFailed, nReq>>

\* if l.Whitelist.On { in := InArray(list, ip); if !in { 401; return } }
checkWhitelist(p) ==
    /\ req[p].pc = "whitelist"
    /\ Whitelist.On => mu = Free
    /\ req' = IF Whitelist.On /\ ~InArray(Whitelist.list, req[p].ip)
              THEN [req EXCEPT ![p].pc = "done", ![p].verdict = "RejectPolicy"]
              ELSE [req EXCEPT ![p].pc = "blacklist"]
    /\ UNCHANGED <<other, phase, mu, Rate, Burst, params, triggers, Whitelist, Blacklist, Cleanup,
                   visitors, heap, useDefault, state, now, lastFailed, nReq>>

\* A blacklist check that runs after the lookup: the visitor of a rejected
\* request has been stamped.
checkBlacklistAfterLookup(p) ==
    /\ req[p].pc = "blacklist"
    /\ Blacklist.On => mu = Free
    /\ req' = IF Blacklist.On /\ InArray(Blacklist.list, req[p].ip)
              THEN [req EXCEPT ![p].pc = "done", ![p].verdict = "RejectPolicy"]
              ELSE [req EXCEPT ![p].pc = "getVisitor"]
    /\ heap' = IF Blacklist.On /\ InArray(Blacklist.list, req[p].ip)
               THEN [heap EXCEPT ![req[p].ip].lastSeen = now]
               ELSE heap
    /\ UNCHANGED <<other, phase, mu, Rate, Burst, params, triggers, Whitelist, Blacklist,
                   Cleanup, visitors, useDefault, state, now, lastFailed, nReq>>

\* A blacklist check with the test inverted: the unlisted are rejected.
checkBlacklistInverted(p) ==
    /\ req[p].pc = "blacklist"
    /\ Blacklist.On => mu = Free
    /\ req' = IF Blacklist.On /\ ~InArray(Blacklist.list, req[p].ip)
              THEN [req EXCEPT ![p].pc = "done", ![p].verdict = "RejectPolicy"]
              ELSE [req EXCEPT ![p].pc = "getVisitor"]
    /\ UNCHANGED <<other, phase, mu, Rate, Burst, params, triggers, Whitelist, Blacklist, Cleanup,
                   visitors, heap, useDefault, state, now, lastFailed, nReq>>

\* if l.Blacklist.On { in := InArray(list, ip); if in { 401; return } }
checkBlacklist(p) ==
    /\ req[p].pc = "blacklist"
    /\ Blacklist.On => mu = Free
    /\ req' = IF Blacklist.On /\ InArray(Blacklist.list, req[p].ip)
              THEN [req EXCEPT ![p].pc = "done", ![p].verdict = "RejectPolicy"]
              ELSE [req EXCEPT ![p].pc = "getVisitor"]
    /\ UNCHANGED <<other, phase, mu, Rate, Burst, params, triggers, Whitelist, Blacklist, Cleanup,
                   visitors, heap, useDefault, state, now, lastFailed, nReq>>

(* ----------------------- getVisitor / addVisitor ---------------------- *)
\* Lock; look up ip; a hit stamps lastSeen and returns the visitor; a miss calls
\* addVisitor with the mutex still held (the Unlock is deferred).
getVisitor(p) ==
    /\ req[p].pc = "getVisitor"
    /\ mu = Free
    /\ IF req[p].ip \in visitors
       THEN /\ heap' = [heap EXCEPT ![req[p].ip].lastSeen = now]
            /\ req' = [req EXCEPT ![p].pc = "allow", ![p].v = req[p].ip]
            /\ mu' = mu
       ELSE /\ req' = [req EXCEPT ![p].pc = "addVisitor"]
            /\ mu' = p
            /\ heap' = heap
    /\ UNCHANGED <<other, phase, Rate, Burst, params, triggers, Whitelist, Blacklist, Cleanup,
                   visitors, useDefault, state, now, lastFailed, nReq>>

\* addVisitor starts with l.Lock() and then writes through its nil named result
\* v (v.limiter = ...), which panics. It is called by getVisitor alone, which
\* holds the mutex, so the Lock never returns: the step is not part of Next.
addVisitor(p) ==
    /\ req[p].pc = "addVisitor"
    /\ mu = Free
    /\ mu' = p
    /\ req' = [req EXCEPT ![p].pc = "dead", ![p].verdict = "panic"]
    /\ UNCHANGED <<other, phase, Rate, Burst, params, triggers, Whitelist, Blacklist, Cleanup,
                   visitors, heap, useDefault, state, now, lastFailed, nReq>>

(* ------------------------------- allow -------------------------------- *)
\* dflt := v.limiter.Allow(); var levels []bool;
\* for i, l := range v.limiters { levels[i] = l.Allow() }: the first iteration
\* calls Allow and then panics on the index into the nil slice levels.
\* if l.useDefault { return dflt }; return levels[l.state]: the same panic.
\* The Unlock is deferred, so a panic releases the mutex.
allowPanics(v) == v.limiters # <<>> \/ ~useDefault
allowVisitor(v) ==
    [v EXCEPT !.limiter = AllowTake(@),
              !.limiters = IF v.limiters = <<>> THEN v.limiters
                           ELSE [v.limiters EXCEPT ![0] = AllowTake(@)]]
allowVerdict(v) ==
    IF allowPanics(v) THEN "panic"
    ELSE IF AllowOk(v.limiter) THEN "Admit" ELSE "RejectRate"

\* A handler that calls the downstream handler whatever allow returned.
allowThenAlwaysServe(p) ==
    /\ req[p].pc = "allow"
    /\ mu = Free
    /\ LET v == heap[req[p].v]
       IN  /\ heap' = [heap EXCEPT ![req[p].v] = allowVisitor(v)]
           /\ req' = [req EXCEPT ![p].verdict = allowVerdict(v), ![p].pc = "serve"]
    /\ UNCHANGED <<other, phase, mu, Rate, Burst, params, triggers, Whitelist, Blacklist, Cleanup,
                   visitors, useDefault, state, now, lastFailed, nReq>>

\* An allow that takes a token from the default limiter of every visitor.
allowDrainsEveryVisitor(p) ==
    /\ req[p].pc = "allow"
    /\ mu = Free
    /\ LET v == heap[req[p].v]
       IN  /\ heap' = [ip \in Ips |->
                         IF ip = req[p].v THEN allowVisitor(v)
                         ELSE [heap[ip] EXCEPT !.limiter = AllowTake(@)]]
           /\ req' = [req EXCEPT ![p].verdict = allowVerdict(v),
                                 ![p].pc = IF allowVerdict(v) = "Admit" THEN "serve"
                                           ELSE "done"]
    /\ UNCHANGED <<other, phase, mu, Rate, Burst, params, triggers, Whitelist, Blacklist, Cleanup,
                   visitors, useDefault, state, now, lastFailed, nReq>>

allow(p) ==
    /\ req[p].pc = "allow"
    /\ mu = Free
    /\ LET v == heap[req[p].v]
       IN  /\ heap' = [heap EXCEPT ![req[p].v] = allowVisitor(v)]
           /\ req' = [req EXCEPT ![p].verdict = allowVerdict(v),
                                 ![p].pc = IF allowVerdict(v) = "Admit" THEN "serve"
                                           ELSE "done"]
    /\ UNCHANGED <<other, phase, mu, Rate, Burst, params, triggers, Whitelist, Blacklist, Cleanup,
                   visitors, useDefault, state, now, lastFailed, nReq>>

\* next.ServeHTTP(w, r) / connHandler(conn)
serve(p) ==
    /\ req[p].pc = "serve"
    /\ req' = [req EXCEPT ![p].pc = "done", ![p].served = TRUE]
    /\ UNCHANGED <<other, phase, mu, Rate, Burst, params, triggers, Whitelist, Blacklist, Cleanup,
                   visitors, heap, useDefault, state, now, lastFailed, nReq>>

(* -------------------------- background tasks -------------------------- *)
\* One cycle of updateWhitelist / updateBlacklist: the quit channel is nil, so the
\* select takes its default branch; ReadList; on success Lock, swap, Unlock; Sleep.
\* The length of the sleep is left open: a cycle may come at any time.
refreshed(L, err) ==
    [L EXCEPT !.list = IF err THEN @ ELSE ReadList(L.Filename)]

updateWhitelist(err) ==
    /\ Whitelist.run
    /\ ~err => mu = Free
    /\ Whitelist' = refreshed(Whitelist, err)
    /\ UNCHANGED <<other, phase, mu, Rate, Burst, params, triggers, Blacklist, Cleanup, visitors,
                   heap, useDefault, state, now, req, lastFailed, nReq>>

updateBlacklist(err) ==
    /\ Blacklist.run
    /\ ~err => mu = Free
    /\ Blacklist' = refreshed(Blacklist, err)
    /\ UNCHANGED <<other, phase, mu, Rate, Burst, params, triggers, Whitelist, Cleanup, visitors,
                   heap, useDefault, state, now, req, lastFailed, nReq>>

(* ------------- the list goroutines and list edits, step by step ------------ *)
\* A fetch whose failure empties the list in use.
fetchOfDropsListOnError(L, err) ==
    [L EXCEPT !.err = err,
              !.newList = IF err THEN <<>> ELSE ReadList(L.Filename),
              !.list = IF err THEN <<>> ELSE @,
              !.pc = IF err THEN "sleep" ELSE "swap"]

\* newList, err := c.ReadList(Filename), outside the mutex.
fetchOf(L, err) ==
    [L EXCEPT !.err = err,
              !.newList = IF err THEN <<>> ELSE ReadList(L.Filename),
              !.pc = IF err THEN "sleep" ELSE "swap"]
\* if err == nil { Lock; list = newList; Unlock }
swapOf(L) == [L EXCEPT !.list = L.newList, !.newList = <<>>, !.pc = "sleep"]
\* time.Sleep(...), then the next iteration of the loop.
sleepOf(L) == [L EXCEPT !.pc = "fetch"]

whitelistFetch(err) ==
    /\ Whitelist.run /\ Whitelist.pc = "fetch"
    /\ Whitelist' = fetchOf(Whitelist, err)
    /\ UNCHANGED <<other, phase, mu, Rate, Burst, params, triggers, Blacklist, Cleanup, visitors,
                   heap, useDefault, state, now, req, lastFailed, nReq>>

whitelistSwap ==
    /\ Whitelist.run /\ Whitelist.pc = "swap"
    /\ mu = Free
    /\ Whitelist' = swapOf(Whitelist)
    /\ UNCHANGED <<other, phase, mu, Rate, Burst, params, triggers, Blacklist, Cleanup, visitors,
                   heap, useDefault, state, now, req, lastFailed, nReq>>

whitelistSleep ==
    /\ Whitelist.run /\ Whitelist.pc = "sleep"
    /\ Whitelist' = sleepOf(Whitelist)
    /\ UNCHANGED <<other, phase, mu, Rate, Burst, params, triggers, Blacklist, Cleanup, visitors,
                   heap, useDefault, state, now, req, lastFailed, nReq>>

blacklistFetch(err) ==
    /\ Blacklist.run /\ Blacklist.pc = "fetch"
    /\ Blacklist' = fetchOf(Blacklist, err)
    /\ UNCHANGED <<other, phase, mu, Rate, Burst, params, triggers, Whitelist, Cleanup, visitors,
                   heap, useDefault, state, now, req, lastFailed, nReq>>

blacklistSwap ==
    /\ Blacklist.run /\ Blacklist.pc = "swap"
    /\ mu = Free
    /\ Blacklist' = swapOf(Blacklist)
    /\ UNCHANGED <<other, phase, mu, Rate, Burst, params, triggers, Whitelist, Cleanup, visitors,
                   heap, useDefault, state, now, req, lastFailed, nReq>>

blacklistSleep ==
    /\ Blacklist.run /\ Blacklist.pc = "sleep"
    /\ Blacklist' = sleepOf(Blacklist)
    /\ UNCHANGED <<other, phase, mu, Rate, Burst, params, triggers, Whitelist, Cleanup, visitors,
                   heap, useDefault, state, now, req, lastFailed, nReq>>

\* Lock; if !InArray(list, ip) { list = append(list, ip) }; Unlock
addTo(L, ip) == [L EXCEPT !.list = IF InArray(L.list, ip) THEN @ ELSE Append(@, ip)]

\* append(list[:i], list[i+1:]...) first copies list[i+1:] down over list[i:] in
\* the array that l.<list>.list still points to with its old length ...
copyDown(list, i) ==
    [k \in 1 .. Len(list) |-> IF k >= i + 1 /\ k < Len(list) THEN list[k + 1] ELSE list[k]]
\* ... and the assignment then stores the slice that is one shorter.
shortened(list) == SubSeq(list, 1, Len(list) - 1)

removeCopy(L, ip) ==
    IF InArray(L.list, ip)
    THEN [L EXCEPT !.list = copyDown(@, InArrayIdx(L.list, ip)), !.edit = TRUE]
    ELSE L
removeAssign(L) == [L EXCEPT !.list = shortened(@), !.edit = FALSE]

AddToWhitelist(ip) ==
    /\ phase = "serving" /\ Whitelist.On
    /\ mu = Free
    /\ Whitelist' = addTo(Whitelist, ip)
    /\ UNCHANGED <<other, phase, mu, Rate, Burst, params, triggers, Blacklist, Cleanup, visitors,
                   heap, useDefault, state, now, req, lastFailed, nReq>>

AddToBlacklist(ip) ==
    /\ phase = "serving" /\ Blacklist.On
    /\ mu = Free
    /\ Blacklist' = addTo(Blacklist, ip)
    /\ UNCHANGED <<other, phase, mu, Rate, Burst, params, triggers, Whitelist, Cleanup, visitors,
                   heap, useDefault, state, now, req, lastFailed, nReq>>

\* RemoveFromWhiteList up to the copy of append; the mutex stays locked when
\* there is something to remove.
RemoveFromWhiteList(ip) ==
    /\ phase = "serving" /\ Whitelist.On
    /\ mu = Free
    /\ Whitelist' = removeCopy(Whitelist, ip)
    /\ mu' = IF InArray(Whitelist.list, ip) THEN EditG ELSE mu
    /\ UNCHANGED <<other, phase, Rate, Burst, params, triggers, Blacklist, Cleanup, visitors,
                   heap, useDefault, state, now, req, lastFailed, nReq>>

\* The rest of RemoveFromWhiteList: the assignment to l.Whitelist.list; Unlock.
RemoveFromWhiteListAssign ==
    /\ mu = EditG /\ Whitelist.edit
    /\ Whitelist' = removeAssign(Whitelist)
    /\ mu' = Free
    /\ UNCHANGED <<other, phase, Rate, Burst, params, triggers, Blacklist, Cleanup, visitors,
                   heap, useDefault, state, now, req, lastFailed, nReq>>

RemoveFromBlackList(ip) ==
    /\ phase = "serving" /\ Blacklist.On
    /\ mu = Free
    /\ Blacklist' = removeCopy(Blacklist, ip)
    /\ mu' = IF InArray(Blacklist.list, ip) THEN EditG ELSE mu
    /\ UNCHANGED <<other, phase, Rate, Burst, params, triggers, Whitelist, Cleanup, visitors,
                   heap, useDefault, state, now, req, lastFailed, nReq>>

RemoveFromBlackListAssign ==
    /\ mu = EditG /\ Blacklist.edit
    /\ Blacklist' = removeAssign(Blacklist)
    /\ mu' = Free
    /\ UNCHANGED <<other, phase, Rate, Burst, params, triggers, Whitelist, Cleanup, visitors,
                   heap, useDefault, state, now, req, lastFailed, nReq>>

\* time.Now().Sub(v.lastSeen) > l.Cleanup.Thres*time.Minute
\* The comparison reversed: the recently seen count as expired.
expiredReversed(v) == now - v.lastSeen < Cleanup.Thres

expired(v) == now - v.lastSeen > Cleanup.Thres

\* One cycle of cleanupVisitors (the quit channel is nil): Sleep(Freq); Lock;
\* delete the expired; Unlock. wake is the time the sleep ends.
\* A sweep that deletes from the map without taking the mutex.
cleanupVisitorsNoLock ==
    /\ Cleanup.run
    /\ now >= Cleanup.wake
    /\ visitors' = {ip \in visitors : ~expired(heap[ip])}
    /\ Cleanup' = [Cleanup EXCEPT !.wake = now + Cleanup.Freq]
    /\ UNCHANGED <<other, phase, mu, Rate, Burst, params, triggers, Whitelist, Blacklist, heap,
                   useDefault, state, now, req, lastFailed, nReq>>

cleanupVisitors ==
    /\ Cleanup.run
    /\ now >= Cleanup.wake
    /\ mu = Free
    /\ visitors' = {ip \in visitors : ~expired(heap[ip])}
    /\ Cleanup' = [Cleanup EXCEPT !.wake = now + Cleanup.Freq]
    /\ UNCHANGED <<other, phase, mu, Rate, Burst, params, triggers, Whitelist, Blacklist, heap,
                   useDefault, state, now, req, lastFailed, nReq>>

(* ------------------ the methods on the second Limiter ----------------- *)
\* The same code with the other receiver: it locks, reads and writes the fields
\* of that Limiter only (this generation has no package-level variable).
otherUpdateState ==
    /\ other.mu = Free
    /\ LET r == ScanTriggers(0, other.triggers, other.state, TRUE, {})
       IN  other' = [other EXCEPT !.triggers = r.triggers, !.state = r.state,
                                  !.useDefault = r.useDefault]
    /\ UNCHANGED limiter

\* A getVisitor that locks one mutex shared by all Limiters of the package.
otherGetVisitorSharedMutex(ip) ==
    /\ mu = Free
    /\ other' = other
    /\ mu' = IF ip \in other.visitors THEN mu ELSE OtherG
    /\ UNCHANGED <<phase, Rate, Burst, params, triggers, Whitelist, Blacklist, Cleanup,
                   visitors, heap, useDefault, state, now, req, lastFailed, nReq>>

\* getVisitor: a hit returns the visitor; a miss calls addVisitor with the mutex
\* of that Limiter held, which never returns.
otherGetVisitor(ip) ==
    /\ other.mu = Free
    /\ other' = IF ip \in other.visitors THEN other ELSE [other EXCEPT !.mu = OtherG]
    /\ UNCHANGED limiter

otherAddToBlacklist(ip) ==
    /\ other.mu = Free
    /\ other' = addTo(other, ip)
    /\ UNCHANGED limiter

(* -------------------------------- time -------------------------------- *)
refillVisitor(v) ==
    [v EXCEPT !.limiter = Refill(@),
              !.limiters = [i \in DOMAIN v.limiters |-> Refill(v.limiters[i])]]

TickUpTo(max) ==
    /\ phase = "serving"
    /\ now < max
    /\ now' = now + 1
    /\ triggers' = [i \in DOMAIN triggers |-> Refill(triggers[i])]
    /\ heap' = [ip \in Ips |-> refillVisitor(heap[ip])]
    /\ UNCHANGED <<other, phase, mu, Rate, Burst, params, Whitelist, Blacklist, Cleanup, visitors,
                   useDefault, state, req, lastFailed, nReq>>

Tick == TickUpTo(MaxNow)

(* ------------------------------ behaviour ----------------------------- *)
Next ==
    \/ \E order \in 0 .. (MaxTiers - 1), limit \in Limits :
          AddState(order, limit, VRate, VBurst)
    \/ \E wlReadable \in BOOLEAN, blReadable \in BOOLEAN : LimiterInit(wlReadable, blReadable)
    \/ \E p \in Reqs, ip \in Ips : Arrive(p, ip)
    \/ \E p \in Reqs : updateState(p)
    \/ \E p \in Reqs : checkWhitelist(p)
    \/ \E p \in Reqs : checkBlacklist(p)
    \/ \E p \in Reqs : getVisitor(p)
    \/ \E p \in Reqs : allow(p)
    \/ \E p \in Reqs : serve(p)
    \/ \E err \in BOOLEAN : updateWhitelist(err)
    \/ \E err \in BOOLEAN : updateBlacklist(err)
    \/ cleanupVisitors
    \/ Tick

Spec == Init /\ [][Next]_vars

\* The steps of request goroutine p. The Go scheduler runs every goroutine that
\* can run, and a goroutine waiting in Lock gets the mutex once it is free.
reqStep(p) ==
    \/ updateState(p)
    \/ checkWhitelist(p)
    \/ checkBlacklist(p)
    \/ getVisitor(p)
    \/ allow(p)
    \/ serve(p)

\* The lists in detail: a Limiter without tiers whose visitors are all registered,
\* with one of the lists set up, its goroutine and the list edits step by step.
InitLists ==
    /\ Init
    /\ DOMAIN triggers = {} /\ visitors = Ips /\ Cleanup.Off
    /\ Whitelist.On # Blacklist.On
    /\ Whitelist.On => Whitelist.Filename # ""
    /\ Blacklist.On => Blacklist.Filename # ""

NextLists ==
    \/ \E wlReadable, blReadable \in BOOLEAN : LimiterInit(wlReadable, blReadable)
    \/ \E p \in Reqs, ip \in Ips : Arrive(p, ip)
    \/ \E p \in Reqs : updateState(p)
    \/ \E p \in Reqs : checkWhitelist(p)
    \/ \E p \in Reqs : checkBlacklist(p)
    \/ \E p \in Reqs : getVisitor(p)
    \/ \E p \in Reqs : allow(p)
    \/ \E p \in Reqs : serve(p)
    \/ \E err \in BOOLEAN : whitelistFetch(err)
    \/ whitelistSwap
    \/ whitelistSleep
    \/ \E err \in BOOLEAN : blacklistFetch(err)
    \/ blacklistSwap
    \/ blacklistSleep
    \/ \E ip \in Ips : AddToWhitelist(ip)
    \/ \E ip \in Ips : AddToBlacklist(ip)
    \/ \E ip \in Ips : RemoveFromWhiteList(ip)
    \/ RemoveFromWhiteListAssign
    \/ \E ip \in Ips : RemoveFromBlackList(ip)
    \/ RemoveFromBlackListAssign

ListSpec == InitLists /\ [][NextLists]_vars

\* The blacklist read from a file that holds an identifier twice (ReadList keeps
\* every line), with its goroutine and the list edits step by step.
InitDup ==
    /\ phase = "config" /\ mu = Free /\ now = 0
    /\ Rate = 0 /\ Burst \in BurstConfigs
    /\ triggers = <<>> /\ params = <<>>
    /\ visitors = Ips
    /\ heap = [ip \in Ips |-> MakeVisitor(Rate, Burst, 0, now - 1)]
    /\ Whitelist = ListOff
    /\ Blacklist = [ListOff EXCEPT !.On = TRUE, !.Filename = "dup", !.UpdateFreq = 1]
    /\ Cleanup \in {c \in CleanupConfigs : c.Off}
    /\ useDefault = FALSE /\ state = 0
    /\ req = [p \in Reqs |-> NewReq]
    /\ lastFailed = {} /\ nReq = 0
    /\ other = OtherLimiter

NextDup ==
    \/ \E blReadable \in BOOLEAN : LimiterInit(TRUE, blReadable)
    \/ \E p \in Reqs, ip \in Ips : Arrive(p, ip)
    \/ \E p \in Reqs : updateState(p)
    \/ \E p \in Reqs : checkWhitelist(p)
    \/ \E p \in Reqs : checkBlacklist(p)
    \/ \E p \in Reqs : getVisitor(p)
    \/ \E p \in Reqs : allow(p)
    \/ \E p \in Reqs : serve(p)
    \/ \E err \in BOOLEAN : blacklistFetch(err)
    \/ blacklistSwap
    \/ blacklistSleep
    \/ \E ip \in Ips : AddToBlacklist(ip)
    \/ \E ip \in Ips : RemoveFromBlackList(ip)
    \/ RemoveFromBlackListAssign

DupSpec == InitDup /\ [][NextDup]_vars

\* The sweep in detail: a Limiter without tiers or lists whose visitors are all
\* registered, with the cleanup goroutine on and a clock that runs one unit
\* longer, so that a visitor seen at the start can pass the threshold.
InitSweep ==
    /\ Init
    /\ DOMAIN triggers = {} /\ visitors = Ips
    /\ ~Whitelist.On /\ ~Blacklist.On /\ ~Cleanup.Off

NextSweep ==
    \/ \E wlReadable, blReadable \in BOOLEAN : LimiterInit(wlReadable, blReadable)
    \/ \E p \in Reqs, ip \in Ips : Arrive(p, ip)
    \/ \E p \in Reqs : updateState(p)
    \/ \E p \in Reqs : checkWhitelist(p)
    \/ \E p \in Reqs : checkBlacklist(p)
    \/ \E p \in Reqs : getVisitor(p)
    \/ \E p \in Reqs : allow(p)
    \/ \E p \in Reqs : serve(p)
    \/ cleanupVisitors
    \/ TickUpTo(MaxNow + 1)

SweepSpec == InitSweep /\ [][NextSweep]_vars

\* Init in detail: a Limiter without tiers or visitors, every parameter that has
\* a default either left at zero or set.
ListConfigsAll(name) ==
    ListConfigs(name) \cup {[ListOff EXCEPT !.On = TRUE, !.Filename = name]}
CleanupConfigsAll ==
    {[Off |-> off, Thres |-> t, Freq |-> f, quitChan |-> NilChan, run |-> FALSE, wake |-> 0] :
        off \in BOOLEAN, t \in {0, 1}, f \in {0, 1}}
RateConfigs == {0, 2}
BurstConfigsAll == {0, 1}

InitConfigs ==
    /\ phase = "config"
    /\ mu = Free
    /\ now = 0
    /\ Rate \in RateConfigs
    /\ Burst \in BurstConfigsAll
    /\ triggers = <<>>
    /\ params = <<>>
    /\ visitors = {}
    /\ heap = [ip \in Ips |-> NoVisitor]
    /\ Whitelist \in ListConfigsAll("wl")
    /\ Blacklist \in ListConfigsAll("bl")
    /\ Cleanup \in CleanupConfigsAll
    /\ useDefault = FALSE
    /\ state = 0
    /\ req = [p \in Reqs |-> NewReq]
    /\ lastFailed = {}
    /\ nReq = 0
    /\ other = OtherLimiter

NextInit == \E wlReadable, blReadable \in BOOLEAN : LimiterInit(wlReadable, blReadable)

InitSpec == InitConfigs /\ [][NextInit]_vars

\* Two Limiters side by side: the first with one tier slot, a blacklist and the
\* cleanup, all its visitors registered; the second as OtherLimiter.
InitPair ==
    /\ Init
    /\ DOMAIN triggers = {0} /\ visitors = Ips
    /\ ~Whitelist.On /\ Blacklist.On /\ Blacklist.Filename # "" /\ ~Cleanup.Off

NextPair ==
    \/ \E limit \in Limits : AddState(0, limit, VRate, VBurst)
    \/ \E blReadable \in BOOLEAN : LimiterInit(TRUE, blReadable)
    \/ \E p \in Reqs : Arrive(p, <<"a">>)
    \/ \E p \in Reqs : updateState(p)
    \/ \E p \in Reqs : checkWhitelist(p)
    \/ \E p \in Reqs : checkBlacklist(p)
    \/ \E p \in Reqs : getVisitor(p)
    \/ \E p \in Reqs : allow(p)
    \/ \E err \in BOOLEAN : updateBlacklist(err)
    \/ AddToBlacklist(<<"a">>)
    \/ cleanupVisitors
    \/ Tick
    \/ otherUpdateState
    \/ \E ip \in Ips : otherGetVisitor(ip)
    \/ otherAddToBlacklist(<<"b">>)

PairSpec == InitPair /\ [][NextPair]_vars

FairSpec == Spec /\ \A p \in Reqs : WF_vars(reqStep(p))

(* ======================================================================= *)
(*                               Properties                                *)
(* ======================================================================= *)
MaxOf(S) == CHOOSE x \in S : \A y \in S : y <= x

\* C1: after a Refresh (updateState) in which the trigger consumption of two or
\* more tiers failed, the active tier is the highest-order tier among those that
\* failed, never a lower one.
C1_HighestFailedTierActive ==
    Cardinality(lastFailed) >= 2 => (~useDefault /\ state = MaxOf(lastFailed))

\* Two tiers failed in the latest Refresh of a serving limiter.
C1_Witness ==
    /\ phase = "serving"
    /\ lastFailed = {0, 1}
    /\ state = 1

\* The step of request p that runs allow: the only step that takes it from "allow".
AllowStep(p) == req[p].pc = "allow" /\ req'[p].pc # "allow"

\* C2: every request that reaches budget consumption takes one unit from its
\* visitor's default bucket and from every one of its tier buckets, whichever
\* tier is active.
C2_AllowDrainsEveryBucket ==
    [][\A p \in Reqs :
          AllowStep(p) =>
             LET v == heap[req[p].v]
                 w == heap'[req[p].v]
             IN  /\ w.limiter = AllowTake(v.limiter)
                 /\ \A i \in DOMAIN v.limiters : w.limiters[i] = AllowTake(v.limiters[i])]_vars

\* The bucket that decides the verdict: the active tier's, or the default one.
ActiveBucket(v) == IF useDefault THEN v.limiter ELSE v.limiters[state]

\* C3: the verdict of a request that passed the policy checks is RejectRate when
\* the consumption from the bucket of the active tier (the default bucket when no
\* tier is active) failed, and Admit otherwise.
C3_VerdictFromActiveBucket ==
    [][\A p \in Reqs :
          AllowStep(p) =>
             req'[p].verdict = IF AllowOk(ActiveBucket(heap[req[p].v])) THEN "Admit"
                               ELSE "RejectRate"]_vars

\* C4: concurrent first-contact requests for a never-seen identifier produce
\* exactly one VisitorState, from which every one of them consumes: a request
\* whose lookup missed goes on to register the state (its addVisitor step can be
\* taken) and is never left without one.
C4_FirstContactRegisters ==
    \A p \in Reqs : req[p].pc = "addVisitor" => ENABLED addVisitor(p)

Verdicts == {"Admit", "RejectPolicy", "RejectRate"}

\* C5: under fair scheduling every call of the admission path ends with Admit,
\* RejectPolicy or RejectRate and with the mutex released; stated here for the
\* case the claim singles out, the first request of a never-seen identifier
\* (the lookup in getVisitor has missed).
C5_EveryRequestGetsVerdict ==
    \A p \in Reqs :
       (req[p].pc = "addVisitor") ~>
          (req[p].pc = "done" /\ req[p].verdict \in Verdicts /\ mu # p)

Listed(L, ip) == ip \in {L.list[i] : i \in DOMAIN L.list}
StepFrom(p, pc) == req[p].pc = pc /\ req'[p].pc # pc
PastLists == {"getVisitor", "addVisitor", "allow", "serve"}

\* C6: with the whitelist on, the whitelist check of a request whose identifier
\* is not in the current list ends the request with RejectPolicy, whatever the
\* visitor's buckets hold; if the identifier is in the list the request goes on
\* to the next check without a verdict.
C6_WhitelistDecides ==
    [][\A p \in Reqs : (StepFrom(p, "whitelist") /\ Whitelist.On) =>
          IF Listed(Whitelist, req[p].ip)
          THEN req'[p].pc = "blacklist" /\ req'[p].verdict = "none"
          ELSE req'[p].pc = "done" /\ req'[p].verdict = "RejectPolicy"]_vars

\* An unlisted visitor with a full default bucket was rejected by policy while a
\* listed one went on to the rate check.
C6_Witness ==
    /\ Whitelist.On /\ ~Blacklist.On
    /\ \E p, q \in Reqs :
          /\ req[p].verdict = "RejectPolicy" /\ ~Listed(Whitelist, req[p].ip)
          /\ req[p].ip \in visitors /\ AllowOk(heap[req[p].ip].limiter)
          /\ req[q].pc \in PastLists /\ Listed(Whitelist, req[q].ip)

\* C7: with the blacklist on, the blacklist check of a request whose identifier
\* is in the current list ends the request with RejectPolicy; if the identifier
\* is not in the list the request goes on to getVisitor and the rate check.
C7_BlacklistDecides ==
    [][\A p \in Reqs : (StepFrom(p, "blacklist") /\ Blacklist.On) =>
          IF Listed(Blacklist, req[p].ip)
          THEN req'[p].pc = "done" /\ req'[p].verdict = "RejectPolicy"
          ELSE req'[p].pc = "getVisitor" /\ req'[p].verdict = "none"]_vars

C7_Witness ==
    /\ Blacklist.On /\ ~Whitelist.On
    /\ \E p, q \in Reqs :
          /\ req[p].verdict = "RejectPolicy" /\ Listed(Blacklist, req[p].ip)
          /\ req[q].pc \in PastLists /\ ~Listed(Blacklist, req[q].ip)

C9_ServedIffAdmit ==
    \A p \in Reqs :
       /\ req[p].served => req[p].verdict = "Admit"
       /\ (req[p].pc = "done" /\ req[p].verdict = "Admit") => req[p].served
       /\ req[p].pc = "serve" <=> (req[p].verdict = "Admit" /\ ~req[p].served)

\* One request was served while another was rejected for its rate.
C9_Witness ==
    \E p, q \in Reqs : req[p].served /\ req[q].pc = "done" /\ req[q].verdict = "RejectRate"

SweepStep == Cleanup.run /\ Cleanup' # Cleanup

\* C10: a cycle of cleanupVisitors removes every visitor last seen longer ago
\* than Cleanup.Thres, and keeps every visitor seen more recently than that, with
\* its buckets as they were.
C10_SweepEvictsIdleKeepsRecent ==
    [][SweepStep =>
         \A ip \in visitors :
            /\ now - heap[ip].lastSeen > Cleanup.Thres => ip \notin visitors'
            /\ now - heap[ip].lastSeen < Cleanup.Thres =>
                   (ip \in visitors' /\ heap'[ip] = heap[ip])]_vars

\* After a sweep (wake has moved past the first sleep) one registered visitor is
\* gone for being idle and one seen within the threshold is still there.
C10_Witness ==
    /\ Cleanup.run /\ Cleanup.wake = now + Cleanup.Freq /\ now > 0
    /\ \E a, b \in Ips :
          /\ a \in visitors /\ now - heap[a].lastSeen < Cleanup.Thres
          /\ b \notin visitors /\ heap[b].limiter.alloc
          /\ now - heap[b].lastSeen > Cleanup.Thres

\* The calls of updateState completed so far; while now = 0 no trigger has been
\* refilled between them.
Refreshes == nReq - Cardinality({p \in Reqs : req[p].pc = "updateState"})
AllSet == \A i \in DOMAIN triggers : triggers[i].alloc
TopTier == Cardinality(DOMAIN triggers) - 1
Active(i) == ~useDefault /\ state = i

C12_NoFailureMeansDefault ==
    [][\A p \in Reqs :
          (StepFrom(p, "updateState") /\ \A i \in DOMAIN triggers : AllowOk(triggers[i]))
             => useDefault']_vars

\* Three requests against one tier of burst 1 with one refill: the second made
\* tier 0 active, the third came after the refill and brought the default back.
C12_Witness ==
    /\ phase = "serving" /\ AllSet /\ TopTier = 0 /\ triggers[0].burst = 1
    /\ Refreshes = 3 /\ now = 1 /\ triggers[0].tokens = 0
    /\ useDefault /\ lastFailed = {}

\* One step of a list goroutine, seen in the list's record before and after.
FetchFailed(L, M) == L.run /\ L.pc = "fetch" /\ M.pc # "fetch" /\ M.err
LoopStep(L, M) == L.run /\ M.pc # L.pc
CycleKeepsOrReplaces(L, M) ==
    /\ FetchFailed(L, M) => (M.list = L.list /\ M.run /\ M.pc = "sleep")
    /\ (LoopStep(L, M) /\ L.pc = "sleep") => (M.run /\ M.pc = "fetch")
    /\ (LoopStep(L, M) /\ M.list # L.list) =>
          (L.pc = "swap" /\ ~L.err /\ M.list = ReadList(L.Filename))

\* C13: a cycle of updateWhitelist / updateBlacklist whose ReadList fails leaves
\* the list as it was and goes to sleep and then to the next fetch; a cycle
\* changes the list only by storing what a successful ReadList returned.
C13_FailedFetchKeepsSnapshot ==
    [][CycleKeepsOrReplaces(Whitelist, Whitelist')
         /\ CycleKeepsOrReplaces(Blacklist, Blacklist')]_vars

\* The whitelist was loaded, and a later fetch has failed and left it in place.
C13_Witness ==
    /\ Whitelist.run /\ Whitelist.pc = "sleep" /\ Whitelist.err
    /\ Whitelist.list = ReadList(Whitelist.Filename)

\* C14: a list check of a request never reads a list that a removal has copied
\* down but not yet shortened (nor one in the middle of any other change): the
\* checks, the swap of the goroutine and the edits all run under the mutex, so
\* the list a check reads is the one before or the one after each change.
C14_CheckReadsCompleteList ==
    [][\A p \in Reqs :
          /\ (StepFrom(p, "whitelist") /\ Whitelist.On) =>
                (~Whitelist.edit /\ mu = Free /\ Whitelist' = Whitelist)
          /\ (StepFrom(p, "blacklist") /\ Blacklist.On) =>
                (~Blacklist.edit /\ mu = Free /\ Blacklist' = Blacklist)]_vars

\* A request stands before the whitelist check while RemoveFromWhiteList holds
\* the mutex with the list copied down and not yet shortened.
C14_Witness ==
    \E p \in Reqs :
       /\ req[p].pc = "whitelist" /\ Whitelist.On /\ Whitelist.edit /\ mu = EditG
       /\ Len(Whitelist.list) >= 2
       /\ Whitelist.list[Len(Whitelist.list)] = Whitelist.list[Len(Whitelist.list) - 1]

\* C15: when Init is called with a whitelist that can be set up and a blacklist
\* that cannot, Init returns the error with the whitelist goroutine stopped: an
\* Init that has started the whitelist and found the blacklist failing can go on
\* to its return.
C15_InitStopsWhitelistAndReturns ==
    phase = "blocked" => (ENABLED whitelistQuit \/ ENABLED LimiterInitReturnsError)

\* C16: a stop signal sent to a background task ends that task: while a value is
\* being sent on the quit channel of a running goroutine, the goroutine can take
\* it and return.
C16_StopEndsTask ==
    (Whitelist.run /\ mu = InitG) => ENABLED whitelistQuit

Tasks == {Whitelist.run, Blacklist.run, Cleanup.run}

\* C17: an Init that finds an enabled list without a file name or with an
\* unreadable file ends by returning the error, with none of the goroutines it
\* started still running.
C17_FailedInitLeavesNoTask ==
    phase \in {"failed", "blocked"} => (phase = "failed" /\ Tasks = {FALSE})

\* C18: tiers whose orders leave a gap (a tier is configured and a lower order
\* is not) are refused at setup: a Limiter that serves has no such gap.
C18_GapsRejectedAtSetup ==
    phase = "serving" =>
       \A i \in DOMAIN triggers : triggers[i].alloc =>
          \A j \in DOMAIN triggers : j < i => triggers[j].alloc

\* C19: a tier whose trigger has no capacity is refused at setup: in a Limiter
\* that serves, every configured trigger can hold at least one token.
C19_ZeroCapacityRejectedAtSetup ==
    phase = "serving" =>
       \A i \in DOMAIN triggers : triggers[i].alloc => triggers[i].burst >= 1

InitSucceeds == phase = "config" /\ phase' = "serving"
Defaulted(old, new, d) == new = IF old = 0 THEN d ELSE old

LockingPcs == {"updateState", "getVisitor", "allow"}
\* The goroutines that work on the first Limiter.
OwnGoroutines == Reqs \cup {InitG, EditG}

BeforeLookup == {"idle", "done", "updateState", "whitelist", "blacklist"}

\* C22: a request that ends with RejectPolicy ends at one of the list checks,
\* before any lookup, and none of its steps up to there changes the visitors
\* map or any visitor: no visitor is created, no bucket is taken from, no
\* lastSeen is stamped.
C22_PolicyRejectLeavesVisitors ==
    [][\A p \in Reqs :
          /\ (req'[p] # req[p] /\ req[p].pc \in BeforeLookup) =>
                (visitors' = visitors /\ heap' = heap)
          /\ (req'[p].verdict = "RejectPolicy" /\ req[p].verdict # "RejectPolicy") =>
                (req[p].pc \in {"whitelist", "blacklist"} /\ req'[p].v = NoIp)]_vars

\* A request of a registered visitor was rejected by policy; the visitor still
\* has its first lastSeen and a full default bucket.
C22_Witness ==
    \E p \in Reqs :
       /\ req[p].verdict = "RejectPolicy" /\ req[p].ip \in visitors
       /\ heap[req[p].ip].lastSeen = 0 - 1
       /\ heap[req[p].ip].limiter.tokens = heap[req[p].ip].limiter.burst

\* C23: the quit channel of every background goroutine (whitelist, blacklist,
\* cleanup) has been made before the goroutine is started: a running goroutine
\* has a quit channel that is not nil, and so has the Limiter's field.
C23_QuitChannelsAllocated ==
    /\ Whitelist.run => Whitelist.quitChan # NilChan
    /\ Blacklist.run => Blacklist.quitChan # NilChan
    /\ Cleanup.run => Cleanup.quitChan # NilChan

C25_NoIndexOrNilFault ==
    (AllSet /\ TopTier >= 0) => \A p \in Reqs : req[p].verdict # "panic"

LookupStep(p) == req[p].pc = "getVisitor" /\ req'[p].pc # "getVisitor"

\* C27: getVisitor for an ip already in the map returns that visitor with its
\* limiters untouched and lastSeen set to the current time; for an ip not in the
\* map it registers a visitor with lastSeen set to the current time, a full
\* default limiter (Rate, Burst) and one full limiter per tier built from that
\* tier's params.
C27_GetVisitorHitOrCreate ==
    [][\A p \in Reqs :
          LookupStep(p) =>
             LET ip == req[p].ip
             IN  IF ip \in visitors
                 THEN /\ req'[p].v = ip
                      /\ visitors' = visitors
                      /\ heap'[ip] = [heap[ip] EXCEPT !.lastSeen = now]
                 ELSE /\ req'[p].v = ip
                      /\ visitors' = visitors \cup {ip}
                      /\ heap'[ip] = [limiter |-> NewLimiter(Rate, Burst),
                                      limiters |-> [i \in DOMAIN params |->
                                                       NewLimiter(params[i].rate,
                                                                  params[i].burst)],
                                      lastSeen |-> now]]_vars

\* Where a request is between its updateState and the end of its allow.
PastRefresh == {"whitelist", "blacklist", "getVisitor", "allow"}

\* C28: the tier that decides a request's verdict is the one its own updateState
\* computed: between a request's updateState and its allow no step changes
\* useDefault or state.
C28_NoRefreshBetween ==
    [][(\E p \in Reqs : req[p].pc \in PastRefresh) =>
          (useDefault' = useDefault /\ state' = state)]_vars

\* C29: once Init has returned without error with the whitelist on, a request
\* whose ip was in the whitelist file when Init read it is never rejected by
\* policy (the blacklist aside): the list is loaded before the first request.
C29_ListedNeverRejected ==
    (phase = "serving" /\ Whitelist.On /\ Whitelist.run) =>
       \A p \in Reqs :
          (InArray(ReadList(Whitelist.Filename), req[p].ip)
              /\ ~InArray(Blacklist.list, req[p].ip)) => req[p].verdict # "RejectPolicy"

\* A step that takes ip out of the list with record L (M after the step), and
\* whether it is a step of RemoveFrom...List (the copy or the assignment).
Dropped(L, M, ip) == Listed(L, ip) /\ ~Listed(M, ip)
RemovalStep(L, M) == L.edit \/ M.edit

\* C30: an ip added with AddToWhitelist (AddToBlacklist) stays in that list until
\* RemoveFromWhiteList (RemoveFromBlackList) is called for it, whatever the
\* list's goroutine does in between: only a removal takes an ip out of a list.
C30_AddedStaysUntilRemoved ==
    [][\A ip \in Ips :
          /\ Dropped(Whitelist, Whitelist', ip) => RemovalStep(Whitelist, Whitelist')
          /\ Dropped(Blacklist, Blacklist', ip) => RemovalStep(Blacklist, Blacklist')]_vars

\* The entries of list other than ip, in their order.
Others(list, ip) == SelectSeq(list, LAMBDA e : e # ip)

\* The step in which RemoveFromBlackList(ip) finds ip and copies the tail down;
\* the list it goes on to assign before it returns is removeAssign(Blacklist').
RemoveStarts(ip) ==
    /\ ~Blacklist.edit /\ Blacklist'.edit /\ InArray(Blacklist.list, ip)
    /\ Blacklist'.list = copyDown(Blacklist.list, InArrayIdx(Blacklist.list, ip))

\* C31: when RemoveFromBlackList(ip) (RemoveFromWhiteList(ip)) returns, ip is
\* not in the list, also when the list held ip more than once, and the other
\* entries are all there in their order.
C31_RemovedIsGone ==
    [][\A ip \in Ips :
          RemoveStarts(ip) =>
             LET after == removeAssign(Blacklist').list
             IN  /\ ~InArray(after, ip)
                 /\ Others(after, ip) = Others(Blacklist.list, ip)]_vars

\* C32: whenever useDefault is false, state is the order of a configured tier
\* (0 <= state < number of tiers), so that the allow of a request reads the
\* result of an existing tier limiter of its visitor and answers with it.
C32_StateNamesTierBucket ==
    [][(phase = "serving" /\ ~useDefault) =>
          /\ state \in DOMAIN triggers
          /\ \A p \in Reqs :
                AllowStep(p) =>
                   LET v == heap[req[p].v]
                   IN  /\ state \in DOMAIN v.limiters
                       /\ req'[p].verdict = IF AllowOk(v.limiters[state]) THEN "Admit"
                                            ELSE "RejectRate"]_vars

\* C33: a step of a request for identifier A changes, in the visitors map, only
\* A's visitor (its limiters and lastSeen): the visitor of every other
\* identifier keeps its limiters, its lastSeen and its place in the map.
C33_OnlyOwnVisitorChanges ==
    [][\A p \in Reqs :
          (req'[p] # req[p] /\ req[p].pc # "idle") =>
             \A ip \in Ips \ {req[p].ip} :
                heap'[ip] = heap[ip] /\ (ip \in visitors' <=> ip \in visitors)]_vars

C33_Witness ==
    \E p \in Reqs, ip \in Ips :
       /\ req[p].pc = "done" /\ req[p].verdict = "Admit" /\ ip # req[p].ip
       /\ heap[req[p].ip].lastSeen = now /\ heap[req[p].ip].limiter.tokens = 0
       /\ ip \in visitors /\ heap[ip].lastSeen = 0 - 1
       /\ heap[ip].limiter.tokens = heap[ip].limiter.burst

\* C34: the allow of a request takes from the visitor that is in the map for its
\* identifier at that moment: cleanupVisitors never deletes a visitor between a
\* request's getVisitor and its allow.
C34_ConsumesRegisteredVisitor ==
    [][\A p \in Reqs : AllowStep(p) => req[p].v \in visitors]_vars

====
